---- MODULE Spec2Model ----
(***************************************************************************)
(* Buzzer tone sequencer (drivers/buzzer.rs) composed over either the      *)
(* Timer1 driver BuzzerPwm (firmware/buzzer_pwm.rs) with the busy-wait     *)
(* delay (firmware/shared/delay.rs), or over the recording PWM channel and *)
(* the TrackingDelay of the unit test in drivers/buzzer.rs.                *)
(***************************************************************************)
EXTENDS Integers, Sequences, FiniteSets, TLC

(* ---------------------------------------------------------------------- *)
(* Program constants                                                       *)
(* ---------------------------------------------------------------------- *)

\* const F_CPU: u32 = 16_000_000
F_CPU == 16000000

\* the divisor of set_frequency: prescaler (64) * 2
FreqDivisor == 128

\* u16::MAX, the maximum duty BuzzerPwm::new caches
U16_MAX == 65535

\* the divisor of the duty computation of Buzzer::tone
PercentDivisor == 100

\* the inner loop of BusyDelay::delay_ms: 1_000 spins for each millisecond
SpinsPerMs == 1000

\* TCCR1B value written by BuzzerPwm::new: (1 << 3) | (1 << 1)
TCCR1B_INIT == 10

\* main: for i in (0u32..8).cycle() { buzzer.tone(400 + i * 120, 50, 100); }
MainNotes == 8
MainBaseHz == 400
MainStepHz == 120
MainPercent == 50
MainMs == 100

\* the arguments of the unit test's tone(440, 100 / 2, 200)
TestHz == 440
TestPercent == 50
TestMs == 200

(* ---------------------------------------------------------------------- *)
(* Bounds of the model                                                     *)
(* ---------------------------------------------------------------------- *)

\* durations 0..MaxDur are tried besides the unit test's 200 ms
MaxDur == 2

\* frequencies 0..MaxLowHz are tried besides the ones around the limits
MaxLowHz == 2

\* requested frequencies: zero, the lowest ones (register overflow), audible
\* ones, and the ones around the timer's capability F_CPU / 128 = 125000
Freqs == (0..MaxLowHz) \cup {TestHz, 1000, 124999, 125000, 125001, 250000, 2147483647}

\* duty percentages the documentation admits (0 -> 100)
Pcts == {0, 1, 49, TestPercent, 51, 99, 100}

\* duty percentages the type u8 admits: the documented ones and some above 100
PctsU8 == Pcts \cup {101, 200, 255}

\* durations in milliseconds
Durs == (0..MaxDur) \cup {TestMs}

\* max_duty_cycle() values of the recording channel
Maxes == {0, 1, 99, 100, 101, 32768, U16_MAX}

\* duty level the channel may have before the Buzzer is constructed over it
PriorDuties == {0, 1, U16_MAX}

(* ---------------------------------------------------------------------- *)
(* Integer conversions                                                     *)
(* ---------------------------------------------------------------------- *)

\* `x as u16`: keeps the low 16 bits
AsU16(x) == x % 65536

\* u32::saturating_sub
SaturatingSub(a, b) == IF a >= b THEN a - b ELSE 0

(* ---------------------------------------------------------------------- *)
(* State                                                                   *)
(* ---------------------------------------------------------------------- *)

VARIABLES
    pc,        \* position of the single thread of control
    chan,      \* "pwm": BuzzerPwm + BusyDelay;  "mock": PwmMock + TrackingDelay
    max,       \* the channel's maximum duty (BuzzerPwm.max / the mock's value)
    duty,      \* duty level the channel was last told through set_duty_cycle
    taken,     \* atmega16::Peripherals already taken
    ddrd,      \* DDRD  bit 4 (PD4 direction)
    portd,     \* PORTD bit 4 (PD4 level)
    tccr1b,    \* Timer1 control register B
    ocr1a,     \* Timer1 compare register A
    freq,      \* tone(): frequency_hz
    pct,       \* tone(): duty_percent
    dur,       \* tone(): duration_ms
    maxRead,   \* tone(): local `max`
    i,         \* BusyDelay::delay_ms: iterations of the outer loop done
    spins,     \* BusyDelay::delay_ms: spin_loop() calls of this delay
    lastMs,    \* TrackingDelay.ms  (-1 is None)
    result,    \* what the last tone() returned: "none" or "Ok"
    panic,     \* "none", or the panic that halted the program
    trace,     \* calls seen by the channel and the delay provider, see below
    fresh,     \* TRUE until a second tone() begins
    dutyResults, \* what the set_duty_cycle calls of this new() / tone() returned
    drivers,   \* BuzzerPwm values that BuzzerPwm::new has returned
    mainIdx    \* main: the `i` the cycling iterator yields next

\* trace holds every call since power-up until the first tone() has returned;
\* each later tone() starts it again, so that it then holds that call's own
\* calls only.

vars == <<pc, chan, max, duty, taken, ddrd, portd, tccr1b, ocr1a, freq, pct, dur,
          maxRead, i, spins, lastMs, result, panic, trace, fresh, dutyResults,
          drivers, mainIdx>>

\* what no step of tone() or of the delay touches
caller == <<drivers, mainIdx>>

hw == <<taken, ddrd, portd, tccr1b>>
args == <<freq, pct, dur>>
delayState == <<i, spins, lastMs>>

Init ==
    /\ pc = "boot"
    /\ chan \in {"pwm", "mock"}
    /\ max \in (IF chan = "mock" THEN Maxes ELSE {0})
    /\ duty \in PriorDuties
    /\ taken = FALSE
    /\ ddrd = 0
    /\ portd = 0
    /\ tccr1b = 0
    /\ ocr1a = 0
    /\ freq = 0
    /\ pct = 0
    /\ dur = 0
    /\ maxRead = 0
    /\ i = 0
    /\ spins = 0
    /\ lastMs = -1
    /\ result = "none"
    /\ panic = "none"
    /\ trace = << >>
    /\ fresh = TRUE
    /\ dutyResults = << >>
    /\ drivers = 0
    /\ mainIdx = 0

(* ---------------------------------------------------------------------- *)
(* Timer1 driver: firmware/buzzer_pwm.rs                                   *)
(* ---------------------------------------------------------------------- *)

\* a mutant of TakeUnwrap: the peripherals are handed out unchecked (steal())
TakeUnchecked ==
    /\ pc' = "pwm_ddrd"
    /\ taken' = TRUE
    /\ UNCHANGED panic

\* Peripherals::take().unwrap(): take() gives the peripherals once and None
\* afterwards; unwrap() panics on None and panic_halt halts the program
TakeUnwrap ==
    IF taken
      THEN /\ pc' = "halted"
           /\ panic' = "unwrap_none"
           /\ UNCHANGED taken
      ELSE /\ pc' = "pwm_ddrd"
           /\ taken' = TRUE
           /\ UNCHANGED panic

\* BuzzerPwm::new is entered: let dp = atmega16::Peripherals::take().unwrap();
PwmNewTake ==
    /\ pc = "boot"
    /\ chan = "pwm"
    /\ TakeUnwrap
    /\ UNCHANGED dutyResults
    /\ UNCHANGED <<chan, caller, max, duty, ddrd, portd, tccr1b, ocr1a, args, maxRead,
                   delayState, result, trace, fresh>>

\* a caller that holds a driver calls BuzzerPwm::new() once more
PwmNewAgain ==
    /\ pc \in {"constructed", "returned"}
    /\ chan = "pwm"
    /\ TakeUnwrap
    /\ UNCHANGED dutyResults
    /\ UNCHANGED <<chan, caller, max, duty, ddrd, portd, tccr1b, ocr1a, args, maxRead,
                   delayState, result, trace, fresh>>

\* a mutant of PwmNewDdrd: PD4 is left an input
PwmNewDdrdInput ==
    /\ pc = "pwm_ddrd"
    /\ ddrd' = 0
    /\ pc' = "pwm_portd"
    /\ UNCHANGED dutyResults
    /\ UNCHANGED <<chan, caller, max, duty, taken, portd, tccr1b, ocr1a, args, maxRead,
                   delayState, result, panic, trace, fresh>>

\* portd.ddrd.write(|w| w.pd4().set_bit())
PwmNewDdrd ==
    /\ pc = "pwm_ddrd"
    /\ ddrd' = 1
    /\ pc' = "pwm_portd"
    /\ UNCHANGED dutyResults
    /\ UNCHANGED <<chan, caller, max, duty, taken, portd, tccr1b, ocr1a, args, maxRead,
                   delayState, result, panic, trace, fresh>>

\* portd.portd.write(|w| w.pd4().clear_bit())
PwmNewPortd ==
    /\ pc = "pwm_portd"
    /\ portd' = 0
    /\ pc' = "pwm_tccr1b"
    /\ UNCHANGED dutyResults
    /\ UNCHANGED <<chan, caller, max, duty, taken, ddrd, tccr1b, ocr1a, args, maxRead,
                   delayState, result, panic, trace, fresh>>

\* tc1.tccr1b.write(|w| unsafe { w.bits((1 << 3) | (1 << 1)) })
PwmNewTccr1b ==
    /\ pc = "pwm_tccr1b"
    /\ tccr1b' = TCCR1B_INIT
    /\ pc' = "pwm_ocr1a"
    /\ UNCHANGED dutyResults
    /\ UNCHANGED <<chan, caller, max, duty, taken, ddrd, portd, ocr1a, args, maxRead,
                   delayState, result, panic, trace, fresh>>

\* tc1.ocr1a.write(|w| w.bits(0));  BuzzerPwm { tc1, max: u16::MAX }
PwmNewOcr1a ==
    /\ pc = "pwm_ocr1a"
    /\ ocr1a' = 0
    /\ max' = U16_MAX
    /\ drivers' = drivers + 1
    /\ pc' = "buzzer_new"
    /\ UNCHANGED dutyResults
    /\ UNCHANGED <<chan, mainIdx, duty, hw, args, maxRead, delayState, result, panic,
                   trace, fresh>>

\* a mutant of top: the toggle factor 2 is forgotten (divides by the prescaler)
topNoToggle(hz) == AsU16(SaturatingSub((F_CPU \div 64) \div hz, 1))

\* a mutant of top: wrapping instead of saturating subtraction
topWrapping(hz) ==
    IF (F_CPU \div FreqDivisor) \div hz = 0
      THEN U16_MAX
      ELSE AsU16(((F_CPU \div FreqDivisor) \div hz) - 1)

\* let top = ((F_CPU / 128) / hz).saturating_sub(1) as u16;   (hz # 0)
top(hz) == AsU16(SaturatingSub((F_CPU \div FreqDivisor) \div hz, 1))

\* BuzzerPwm::set_frequency: the division panics for hz = 0 (panic_halt then
\* halts the program); otherwise OCR1A is written
PwmSetFrequency(hz) ==
    IF hz = 0
      THEN /\ panic' = "div_by_zero"
           /\ pc' = "halted"
           /\ UNCHANGED ocr1a
      ELSE /\ ocr1a' = top(hz)
           /\ pc' = "max_duty_cycle"
           /\ UNCHANGED panic

\* impl SetFrequency for PwmMock: Ok(()) whatever hz is
MockSetFrequency(hz) ==
    /\ pc' = "max_duty_cycle"
    /\ UNCHANGED <<ocr1a, panic>>

\* what a set_duty_cycle call can return: BuzzerPwm's error type is Infallible;
\* the recording channel returns Ok(()) or the error its expectation carries
DutyOutcomes == IF chan = "pwm" THEN {"Ok"} ELSE {"Ok", "Err"}

\* a mutant of SetDutyCycle: the write is dropped
SetDutyCycleDropped(v) ==
    /\ trace' = Append(trace, <<"set_duty_cycle", v>>)
    /\ \E r \in DutyOutcomes : dutyResults' = Append(dutyResults, r)
    /\ UNCHANGED <<duty, ocr1a>>

\* set_duty_cycle(v) as the channel sees it; BuzzerPwm writes it to OCR1A. The
\* recording channel keeps no duty of its own: `duty` is the level it was
\* handed, whatever it returns
SetDutyCycle(v) ==
    /\ duty' = v
    /\ ocr1a' = IF chan = "pwm" THEN v ELSE ocr1a
    /\ trace' = Append(trace, <<"set_duty_cycle", v>>)
    /\ \E r \in DutyOutcomes : dutyResults' = Append(dutyResults, r)

(* ---------------------------------------------------------------------- *)
(* Buzzer: drivers/buzzer.rs                                               *)
(* ---------------------------------------------------------------------- *)

\* PwmMock::new(&expectations); TrackingDelay::new()
MockNew ==
    /\ pc = "boot"
    /\ chan = "mock"
    /\ lastMs' = -1
    /\ pc' = "buzzer_new"
    /\ UNCHANGED dutyResults
    /\ UNCHANGED <<chan, caller, max, duty, hw, ocr1a, args, maxRead, i, spins, result,
                   panic, trace, fresh>>

\* a mutant of BuzzerNew: the channel is not silenced at construction
BuzzerNewNoWrite ==
    /\ pc = "buzzer_new"
    /\ pc' = "constructed"
    /\ UNCHANGED dutyResults
    /\ UNCHANGED <<chan, caller, max, duty, hw, ocr1a, args, maxRead, delayState, result,
                   panic, trace, fresh>>

\* Buzzer::new: let _ = pwm.set_duty_cycle(0);
BuzzerNew ==
    /\ pc = "buzzer_new"
    /\ SetDutyCycle(0)
    /\ pc' = "constructed"
    /\ UNCHANGED <<chan, caller, max, hw, args, maxRead, delayState, result, panic, fresh>>

\* a caller enters tone(frequency_hz, duty_percent, duration_ms)
ToneCall ==
    /\ pc \in {"constructed", "returned"}
    /\ \E f \in Freqs, p \in Pcts, d \in Durs :
         /\ freq' = f
         /\ pct' = p
         /\ dur' = d
    /\ fresh' = (pc = "constructed")
    /\ trace' = IF pc = "constructed" THEN trace ELSE << >>
    /\ result' = "none"
    /\ dutyResults' = << >>
    /\ pc' = "set_frequency"
    /\ UNCHANGED <<chan, caller, max, duty, hw, ocr1a, maxRead, delayState, panic>>

\* a caller enters tone() with any duty_percent: u8, also one above 100
ToneCallU8 ==
    /\ pc \in {"constructed", "returned"}
    /\ \E f \in Freqs, p \in PctsU8, d \in Durs :
         /\ freq' = f
         /\ pct' = p
         /\ dur' = d
    /\ fresh' = (pc = "constructed")
    /\ trace' = IF pc = "constructed" THEN trace ELSE << >>
    /\ result' = "none"
    /\ dutyResults' = << >>
    /\ pc' = "set_frequency"
    /\ UNCHANGED <<chan, caller, max, duty, hw, ocr1a, maxRead, delayState, panic>>

\* a mutant of ToneSetFrequency: the timer driver also moves its cached
\* maximum to the new TOP
ToneSetFrequencyRetuned ==
    /\ pc = "set_frequency"
    /\ trace' = Append(trace, <<"set_frequency", freq>>)
    /\ IF chan = "pwm" THEN PwmSetFrequency(freq) ELSE MockSetFrequency(freq)
    /\ max' = IF chan = "pwm" /\ freq # 0 THEN top(freq) ELSE max
    /\ UNCHANGED dutyResults
    /\ UNCHANGED <<chan, caller, duty, hw, args, maxRead, delayState, result, fresh>>

\* a mutant of MainToneCall: the base frequency is left out
MainToneCallNoBase ==
    /\ pc \in {"constructed", "returned"}
    /\ freq' = mainIdx * MainStepHz
    /\ pct' = MainPercent
    /\ dur' = MainMs
    /\ mainIdx' = (mainIdx + 1) % MainNotes
    /\ fresh' = (pc = "constructed")
    /\ trace' = IF pc = "constructed" THEN trace ELSE << >>
    /\ result' = "none"
    /\ dutyResults' = << >>
    /\ pc' = "set_frequency"
    /\ UNCHANGED <<chan, drivers, max, duty, hw, ocr1a, maxRead, delayState, panic>>

\* main: the cycling iterator yields i and buzzer.tone(400 + i * 120, 50, 100)
\* is entered; the result of the previous call is dropped
MainToneCall ==
    /\ pc \in {"constructed", "returned"}
    /\ freq' = MainBaseHz + mainIdx * MainStepHz
    /\ pct' = MainPercent
    /\ dur' = MainMs
    /\ mainIdx' = (mainIdx + 1) % MainNotes
    /\ fresh' = (pc = "constructed")
    /\ trace' = IF pc = "constructed" THEN trace ELSE << >>
    /\ result' = "none"
    /\ dutyResults' = << >>
    /\ pc' = "set_frequency"
    /\ UNCHANGED <<chan, drivers, max, duty, hw, ocr1a, maxRead, delayState, panic>>

\* self.pwm.set_frequency(frequency_hz)?;
ToneSetFrequency ==
    /\ pc = "set_frequency"
    /\ trace' = Append(trace, <<"set_frequency", freq>>)
    /\ IF chan = "pwm" THEN PwmSetFrequency(freq) ELSE MockSetFrequency(freq)
    /\ UNCHANGED dutyResults
    /\ UNCHANGED <<chan, caller, max, duty, hw, args, maxRead, delayState, result, fresh>>

\* a mutant of ToneMaxDutyCycle: the maximum is read twice
ToneMaxDutyCycleTwice ==
    /\ pc = "max_duty_cycle"
    /\ maxRead' = max
    /\ trace' = trace \o << <<"max_duty_cycle", max>>, <<"max_duty_cycle", max>> >>
    /\ pc' = "set_duty_cycle"
    /\ UNCHANGED dutyResults
    /\ UNCHANGED <<chan, caller, max, duty, hw, ocr1a, args, delayState, result, panic, fresh>>

\* let max = self.pwm.max_duty_cycle();
ToneMaxDutyCycle ==
    /\ pc = "max_duty_cycle"
    /\ maxRead' = max
    /\ trace' = Append(trace, <<"max_duty_cycle", max>>)
    /\ pc' = "set_duty_cycle"
    /\ UNCHANGED dutyResults
    /\ UNCHANGED <<chan, caller, max, duty, hw, ocr1a, args, delayState, result, panic, fresh>>

\* a mutant of ToneDuty: rounds to nearest instead of truncating
ToneDutyRounded(m, p) == AsU16(((m * p) + 50) \div PercentDivisor)

\* a mutant of Product: the multiplication is done in u16 and wraps
ProductU16(m, p) == AsU16(m * p)

\* u32::from(max) * (duty_percent as u32): the product of a u16 and a u8 in
\* 32 bits
Product(m, p) == m * p

\* let duty = (u32::from(max) * (duty_percent as u32) / 100) as u16;
ToneDuty(m, p) == AsU16(Product(m, p) \div PercentDivisor)

\* a mutant of ToneSetDuty: the result is propagated with `?`
ToneSetDutyPropagated ==
    /\ pc = "set_duty_cycle"
    /\ SetDutyCycle(ToneDuty(maxRead, pct))
    /\ IF dutyResults'[Len(dutyResults')] = "Err"
         THEN /\ pc' = "returned"
              /\ result' = "Err"
         ELSE /\ pc' = "delay"
              /\ UNCHANGED result
    /\ UNCHANGED <<chan, caller, max, hw, args, maxRead, delayState, panic, fresh>>

\* let _ = self.pwm.set_duty_cycle(duty);
ToneSetDuty ==
    /\ pc = "set_duty_cycle"
    /\ SetDutyCycle(ToneDuty(maxRead, pct))
    /\ pc' = "delay"
    /\ UNCHANGED <<chan, caller, max, hw, args, maxRead, delayState, result, panic, fresh>>

\* self.delay.delay_ms(duration_ms): BusyDelay starts its loops, TrackingDelay
\* records the request and returns
ToneDelay ==
    /\ pc = "delay"
    /\ trace' = Append(trace, <<"delay_ms", dur>>)
    /\ IF chan = "pwm"
         THEN /\ i' = 0
              /\ spins' = 0
              /\ pc' = "spin"
              /\ UNCHANGED lastMs
         ELSE /\ lastMs' = dur
              /\ pc' = "clear_duty"
              /\ UNCHANGED <<i, spins>>
    /\ UNCHANGED dutyResults
    /\ UNCHANGED <<chan, caller, max, duty, hw, ocr1a, args, maxRead, result, panic, fresh>>

\* BusyDelay::delay_ms: one iteration of `for _ in 0..ms`, 1_000 spin_loop()s
BusyDelaySpin ==
    /\ pc = "spin"
    /\ i < dur
    /\ i' = i + 1
    /\ spins' = spins + SpinsPerMs
    /\ UNCHANGED dutyResults
    /\ UNCHANGED <<pc, chan, caller, max, duty, hw, ocr1a, args, maxRead, lastMs, result,
                   panic, trace, fresh>>

\* a mutant of BusyDelayReturn: the delay may return before its loops are done
BusyDelayReturnEarly ==
    /\ pc = "spin"
    /\ pc' = "clear_duty"
    /\ UNCHANGED dutyResults
    /\ UNCHANGED <<chan, caller, max, duty, hw, ocr1a, args, maxRead, delayState, result,
                   panic, trace, fresh>>

\* BusyDelay::delay_ms: the outer loop is exhausted, the delay returns
BusyDelayReturn ==
    /\ pc = "spin"
    /\ i >= dur
    /\ pc' = "clear_duty"
    /\ UNCHANGED dutyResults
    /\ UNCHANGED <<chan, caller, max, duty, hw, ocr1a, args, maxRead, delayState, result,
                   panic, trace, fresh>>

\* a mutant of ToneClearDuty: tone() returns without the final duty write
ToneClearDutySkipped ==
    /\ pc = "clear_duty"
    /\ result' = "Ok"
    /\ pc' = "returned"
    /\ UNCHANGED dutyResults
    /\ UNCHANGED <<chan, caller, max, duty, hw, ocr1a, args, maxRead, delayState, panic,
                   trace, fresh>>

\* let _ = self.pwm.set_duty_cycle(0);  Ok(())
ToneClearDuty ==
    /\ pc = "clear_duty"
    /\ SetDutyCycle(0)
    /\ result' = "Ok"
    /\ pc' = "returned"
    /\ UNCHANGED <<chan, caller, max, hw, args, maxRead, delayState, panic, fresh>>

\* the steps of construction and of tone(), whoever the caller is
Steps ==
    \/ PwmNewTake
    \/ PwmNewDdrd
    \/ PwmNewPortd
    \/ PwmNewTccr1b
    \/ PwmNewOcr1a
    \/ BuzzerNew
    \/ ToneSetFrequency
    \/ ToneMaxDutyCycle
    \/ ToneSetDuty
    \/ ToneDelay
    \/ BusyDelaySpin
    \/ BusyDelayReturn
    \/ ToneClearDuty

\* callers that keep to the documented duty_percent (0 -> 100)
Next ==
    \/ MockNew
    \/ PwmNewAgain
    \/ ToneCall
    \/ Steps

Spec == Init /\ [][Next]_vars

\* callers that pass any duty_percent: u8
NextU8 ==
    \/ MockNew
    \/ PwmNewAgain
    \/ ToneCallU8
    \/ Steps

SpecU8 == Init /\ [][NextU8]_vars

\* the callers of Spec, with the program's own steps never left pending: the
\* single thread of control executes its next instruction
SpecFair == Spec /\ WF_vars(Steps)

\* the firmware: main constructs the Buzzer over BuzzerPwm and BusyDelay
InitMain == Init /\ chan = "pwm"

\* main's loop and the steps of what it calls
NextMain ==
    \/ MainToneCall
    \/ Steps

\* the firmware runs on: no step of main is left pending for ever
SpecMain == InitMain /\ [][NextMain]_vars /\ WF_vars(NextMain)

\* the values the variables range over
TypeOK ==
    /\ chan \in {"pwm", "mock"}
    /\ max \in 0..U16_MAX
    /\ duty \in 0..U16_MAX
    /\ ocr1a \in 0..U16_MAX
    /\ taken \in BOOLEAN
    /\ fresh \in BOOLEAN
    /\ pc = "spin" => i \in 0..dur
    /\ spins = i * SpinsPerMs
    /\ result \in {"none", "Ok"}
    /\ panic \in {"none", "div_by_zero", "unwrap_none"}

(* ---------------------------------------------------------------------- *)
(* Properties                                                              *)
(* ---------------------------------------------------------------------- *)

\* positions before Buzzer::new has returned
BeforeConstruction == {"boot", "pwm_ddrd", "pwm_portd", "pwm_tccr1b", "pwm_ocr1a", "buzzer_new"}

\* positions inside tone() after the turn-on duty write and before the final one
SoundingWindow == {"delay", "spin", "clear_duty"}

\* positions inside a tone() call
InsideTone == {"set_frequency", "max_duty_cycle", "set_duty_cycle", "delay", "spin", "clear_duty"}

\* the calls of the tone() in progress or just returned
ToneCalls == IF fresh THEN Tail(trace) ELSE trace

\* the quotient floor(F / 128 / hz) of the frequency derivation, hz >= 1
Quotient(hz) == (16000000 \div 128) \div hz

C2_CallSequence ==
    pc = "returned" =>
       /\ ToneCalls = << <<"set_frequency", freq>>,
                         <<"max_duty_cycle", max>>,
                         <<"set_duty_cycle", (max * pct) \div 100>>,
                         <<"delay_ms", dur>>,
                         <<"set_duty_cycle", 0>> >>
       /\ chan = "mock" => lastMs = dur
       /\ (fresh /\ freq = 440 /\ pct = 50 /\ dur = 200) =>
             trace = << <<"set_duty_cycle", 0>>,
                        <<"set_frequency", 440>>,
                        <<"max_duty_cycle", max>>,
                        <<"set_duty_cycle", max \div 2>>,
                        <<"delay_ms", 200>>,
                        <<"set_duty_cycle", 0>> >>

\* C2 witness: the unit test's scenario has run to its end
C2_Witness ==
    /\ pc = "returned"
    /\ chan = "mock"
    /\ fresh
    /\ max = 65535
    /\ freq = 440 /\ pct = 50 /\ dur = 200
    /\ Len(trace) = 6
    /\ lastMs = 200

\* C3: the duty of the turn-on set_duty_cycle call is floor(m * p / 100) for
\* the maximum m read and the percentage p; 65535 and 50 give 32767.
C3_DutyTruncates ==
    pc = "delay" =>
       /\ trace[Len(trace)] = <<"set_duty_cycle", (maxRead * pct) \div 100>>
       /\ duty = (max * pct) \div 100
       /\ (max = 65535 /\ pct = 50) => duty = 32767

\* C3 witness: half of 65535 has been written as 32767
C3_Witness ==
    /\ pc = "delay"
    /\ maxRead = 65535
    /\ pct = 50
    /\ duty = 32767

\* C4: for hz >= 1 with floor(F / 128 / hz) - 1 within 0..65535,
\* set_frequency(hz) writes floor(F / 128 / hz) - 1 to OCR1A; 440 gives 283.
C4_RegisterValue ==
    (chan = "pwm" /\ pc = "max_duty_cycle") =>
       /\ (freq >= 1 /\ Quotient(freq) - 1 \in 0..65535) => ocr1a = Quotient(freq) - 1
       /\ freq = 440 => ocr1a = 283

\* C4 witness: set_frequency(440) has written 283
C4_Witness ==
    /\ chan = "pwm"
    /\ pc = "max_duty_cycle"
    /\ freq = 440
    /\ ocr1a = 283

\* C5 (as claimed): no set_frequency call ends in a division by zero that
\* halts the program.
C5_NoDivisionByZero == panic # "div_by_zero"

\* C6 (as claimed): when floor(F / 128 / hz) - 1 exceeds 65535, set_frequency
\* writes 65535 to OCR1A.
C6_ClampedToRegisterMax ==
    (chan = "pwm" /\ pc = "max_duty_cycle" /\ freq >= 1 /\ Quotient(freq) - 1 > 65535) =>
       ocr1a = 65535

\* C7: for hz above 125000 (floor(F / 128 / hz) < 1) set_frequency writes 0
\* to OCR1A, never a wrapped value.
C7_SaturatesAtZero ==
    (chan = "pwm" /\ pc = "max_duty_cycle" /\ freq > 125000) => ocr1a = 0

\* C7 witness: a frequency just above the timer's capability was requested
C7_Witness ==
    /\ chan = "pwm"
    /\ pc = "max_duty_cycle"
    /\ freq = 125001
    /\ ocr1a = 0

\* C8 (as claimed): during the delay of tone(f, p, d) on the timer driver,
\* OCR1A holds the period value derived from f.
C8_PeriodHeldWhileSounding ==
    (chan = "pwm" /\ pc = "spin" /\ freq >= 1 /\ Quotient(freq) - 1 \in 0..65535) =>
       ocr1a = Quotient(freq) - 1

\* C9 (as claimed): when set_frequency has failed inside tone(), tone() has
\* returned the error to its caller, with no duty write and no delay in that
\* call and the duty as it was.
C9_FrequencyFailureReturned ==
    panic = "div_by_zero" =>
       /\ pc = "returned"
       /\ result = "Err"
       /\ \A k \in 1..Len(ToneCalls) : ToneCalls[k][1] \notin {"set_duty_cycle", "delay_ms"}
       /\ duty = 0

\* C10: Buzzer::new issues set_duty_cycle(0) and it is the first call the
\* channel sees: nothing is called before Buzzer::new, Buzzer::new returns
\* with exactly that call made and the duty at 0, and every first tone()
\* runs after it.
C10_ConstructionSilencesFirst ==
    /\ pc \in BeforeConstruction => trace = << >>
    /\ pc = "constructed" => (trace = << <<"set_duty_cycle", 0>> >> /\ duty = 0)
    /\ (pc \notin BeforeConstruction /\ fresh) =>
          (Len(trace) >= 1 /\ trace[1] = <<"set_duty_cycle", 0>>)
    /\ pc \in InsideTone => (fresh => trace[1] = <<"set_duty_cycle", 0>>)

\* C10 witness: the Buzzer has just been constructed over the timer driver
C10_Witness ==
    /\ pc = "constructed"
    /\ chan = "pwm"
    /\ trace = << <<"set_duty_cycle", 0>> >>
    /\ ocr1a = 0

\* C11: a failing set_duty_cycle never ends tone() early: after the turn-on
\* write, whatever it returned, tone() goes on to the delay; every tone() that
\* returns has made both duty writes and the delay of d milliseconds between
\* them and returns Ok, whichever of the two writes failed; no failure halts
\* the program.
C11_DutyFailuresSwallowed ==
    /\ pc \in SoundingWindow => Len(dutyResults) = 1
    /\ pc = "returned" =>
          /\ result = "Ok"
          /\ Len(dutyResults) = 2
          /\ Len(ToneCalls) = 5
          /\ ToneCalls[3][1] = "set_duty_cycle"
          /\ ToneCalls[4] = <<"delay_ms", dur>>
          /\ ToneCalls[5] = <<"set_duty_cycle", 0>>
          /\ chan = "mock" => lastMs = dur
    /\ (\E k \in 1..Len(dutyResults) : dutyResults[k] = "Err") =>
          (panic = "none" /\ result # "Err")

\* C11 witness: both duty writes of a 200 ms tone failed and it returned Ok
C11_Witness ==
    /\ pc = "returned"
    /\ dutyResults = <<"Err", "Err">>
    /\ result = "Ok"
    /\ dur = 200
    /\ lastMs = 200
    /\ trace[Len(trace)] = <<"set_duty_cycle", 0>>

\* the smaller of two numbers
Min(a, b) == IF a <= b THEN a ELSE b

\* C12 (as claimed): for every duty_percent: u8 the value handed to
\* set_duty_cycle, and written to OCR1A by the timer driver, is
\* min(floor(max * p / 100), max).
C12_DutyClampedToMax ==
    pc = "delay" =>
       /\ trace[Len(trace)] =
             <<"set_duty_cycle", Min((maxRead * pct) \div 100, maxRead)>>
       /\ chan = "pwm" => ocr1a = Min((maxRead * pct) \div 100, maxRead)

\* C18: for every maximum read (a u16) and every duty_percent (a u8) the
\* product computed in tone() is below 2^32, and for duty_percent up to 100
\* the quotient is at most the maximum and is the duty handed on unchanged by
\* the conversion to u16.
C18_NoOverflowNoLoss ==
    pc = "delay" =>
       /\ maxRead \in 0..65535 /\ pct \in 0..255
       /\ Product(maxRead, pct) \div 65536 < 65536
       /\ pct <= 100 =>
             /\ (maxRead * pct) \div 100 <= maxRead
             /\ duty = (maxRead * pct) \div 100
             /\ duty <= maxRead

\* C18 witness: the largest product, 65535 * 255; above 100 percent the
\* conversion to u16 does lose bits
C18_Witness ==
    /\ pc = "delay"
    /\ maxRead = 65535
    /\ pct = 255
    /\ Product(maxRead, pct) = 16711425
    /\ duty = 36042

\* positions inside BuzzerPwm::new
InsidePwmNew == {"pwm_ddrd", "pwm_portd", "pwm_tccr1b", "pwm_ocr1a"}

\* C13: on the timer driver the timer control register is non-zero (the timer
\* runs) only with PD4 a driven output at low level, in every state of
\* construction and after it; BuzzerPwm::new returns with OCR1A = 0.
C13_PinDrivenBeforeTimerRuns ==
    chan = "pwm" =>
       /\ tccr1b # 0 => (ddrd = 1 /\ portd = 0)
       /\ pc = "pwm_tccr1b" => (ddrd = 1 /\ portd = 0 /\ tccr1b = 0)
       /\ pc = "buzzer_new" => (tccr1b # 0 /\ ocr1a = 0)

\* C13 witness: inside BuzzerPwm::new the timer has just been started
C13_Witness ==
    /\ chan = "pwm"
    /\ pc = "pwm_ocr1a"
    /\ tccr1b = 10
    /\ ddrd = 1
    /\ portd = 0
    /\ drivers = 0

\* the clock divider the clock-select bits CS12:CS10 of TCCR1B choose on the
\* ATmega16 (0: no internal clock, timer stopped or externally clocked)
ClockDivider(cs) ==
    CASE cs = 1 -> 1
      [] cs = 2 -> 8
      [] cs = 3 -> 64
      [] cs = 4 -> 256
      [] cs = 5 -> 1024
      [] OTHER -> 0

\* C14 (as claimed): once BuzzerPwm::new has returned, TCCR1B holds exactly
\* the CTC bit WGM12 (bit 3) and the clock-select bits of clock / 64.
C14_ControlBitsCtcDiv64 ==
    (chan = "pwm" /\ drivers >= 1) =>
       /\ tccr1b < 16
       /\ (tccr1b \div 8) % 2 = 1
       /\ ClockDivider(tccr1b % 8) = 64

\* C15: BuzzerPwm::new returns at most one driver: a construction is under
\* way only while none exists, and a call made while one exists stops at
\* take().unwrap() and halts the program.
C15_TakeOnce ==
    /\ drivers <= 1
    /\ pc \in InsidePwmNew => drivers = 0
    /\ drivers = 1 => taken
    /\ panic = "unwrap_none" => (pc = "halted" /\ drivers = 1)

\* C15 witness: a second BuzzerPwm::new() was refused
C15_Witness ==
    /\ panic = "unwrap_none"
    /\ pc = "halted"
    /\ drivers = 1
    /\ taken

\* C16: once BuzzerPwm::new has returned, the timer control register, the
\* direction and level of PD4 and the cached maximum keep the values of
\* construction through every set_frequency and set_duty_cycle.
C16_OnlyCompareRegisterChanges ==
    (chan = "pwm" /\ drivers >= 1) =>
       /\ tccr1b = 10
       /\ ddrd = 1
       /\ portd = 0
       /\ max = 65535
       /\ taken

\* C16 witness: a tone at full duty has moved OCR1A twice and returned
C16_Witness ==
    /\ chan = "pwm"
    /\ pc = "returned"
    /\ freq = 440
    /\ trace[Len(trace) - 2] = <<"set_duty_cycle", 65535>>
    /\ ocr1a = 0
    /\ tccr1b = 10
    /\ max = 65535

\* C17: BusyDelay::delay_ms(ms) counts 1000 spins for each outer iteration,
\* returns only when all ms iterations are done, after exactly ms * 1000
\* spins, and every tone() whose set_frequency does not panic returns.
C17_DelayRunsToCompletion ==
    /\ [](chan = "pwm" /\ pc = "spin" => (i <= dur /\ spins = i * 1000))
    /\ [](chan = "pwm" /\ pc = "clear_duty" => (i = dur /\ spins = dur * 1000))
    /\ (pc = "set_frequency" /\ ~(chan = "pwm" /\ freq = 0)) ~> (pc = "returned")

\* C17 witness: a delay of 200 ms has returned after 200000 spins
C17_Witness ==
    /\ chan = "pwm"
    /\ pc = "clear_duty"
    /\ dur = 200
    /\ i = 200
    /\ spins = 200000

\* C19: every tone main requests has frequency 400 + 120 * i for the i just
\* yielded, in 400..1240, duty 50 and duration 100; set_frequency never
\* divides by zero there and writes floor(125000 / f) - 1, within 0..65535;
\* nothing halts the program and each of the eight tones is requested again
\* and again.
C19_MainLoop ==
    /\ [](pc \in InsideTone =>
            /\ freq = 400 + 120 * ((mainIdx + 7) % 8)
            /\ freq \in 400..1240
            /\ pct = 50
            /\ dur = 100)
    /\ [](pc = "max_duty_cycle" =>
            /\ Quotient(freq) - 1 \in 0..65535
            /\ ocr1a = Quotient(freq) - 1)
    /\ [](pc # "halted" /\ panic = "none")
    /\ \A k \in 0..7 : []<>(pc = "set_frequency" /\ freq = 400 + 120 * k)

\* C19 witness: the iterator has wrapped around: the highest tone has
\* returned and i = 0 comes next
C19_Witness ==
    /\ pc = "returned"
    /\ freq = 1240
    /\ mainIdx = 0
    /\ ~fresh
    /\ result = "Ok"

====
